---- MODULE Spec2Model ----
(***************************************************************************)
(* Model of the SCPI lexer (libscpi/src/lexer.c).                          *)
(*                                                                         *)
(* The lexer state is a read-only buffer and a scan cursor.  Pointers are  *)
(* modelled as byte offsets from state->buffer, so state->pos is `pos`,    *)
(* token->ptr is `token.ptr`, and state->len is Len(buffer).  A byte is    *)
(* its value in 0..255.  Every detector is an operator from (buffer,       *)
(* cursor, caller's token record) to (cursor, token record, return value)  *)
(* and an action that applies it to the shared lexer state.                *)
(***************************************************************************)
EXTENDS Integers, Sequences, FiniteSets, TLC

VARIABLES buffer, pos, token, ret, det, start, retries

vars == <<buffer, pos, token, ret, det, start, retries>>

(***************************************************************************)
(* Bounds of the model.                                                    *)
(***************************************************************************)
MaxLen == 5
MaxAnyLen == 3

(***************************************************************************)
(* Byte values of the character literals the lexer tests for.              *)
(***************************************************************************)
CH_TAB == 9
CH_LF == 10
CH_CR == 13
CH_SPACE == 32
CH_DQUOTE == 34
CH_HASH == 35
CH_SQUOTE == 39
CH_LPAREN == 40
CH_RPAREN == 41
CH_STAR == 42
CH_PLUS == 43
CH_COMMA == 44
CH_MINUS == 45
CH_DOT == 46
CH_SLASH == 47
CH_0 == 48
CH_1 == 49
CH_2 == 50
CH_7 == 55
CH_9 == 57
CH_COLON == 58
CH_SEMICOLON == 59
CH_QUESTION == 63
CH_A == 65
CH_B == 66
CH_E == 69
CH_F == 70
CH_H == 72
CH_Q == 81
CH_Z == 90
CH_UNDERSCORE == 95
CH_a == 97
CH_b == 98
CH_e == 101
CH_f == 102
CH_h == 104
CH_q == 113
CH_z == 122
CH_PRINT_LAST == 126
CH_ASCII_LAST == 127
(* A byte outside 7-bit ASCII, as an arbitrary block may carry. *)
CH_HIGH == 200

SKIP_NONE == 0
SKIP_OK == 1
SKIP_INCOMPLETE == -1

(***************************************************************************)
(* <ctype.h> classification in the "C" locale.  The lexer casts to uint8_t *)
(* before every call except in isNonzeroDigit; a byte above 127 is no      *)
(* digit, letter or hex digit under either reading.                        *)
(***************************************************************************)
isdigit(c) == c \in CH_0..CH_9
isalpha(c) == c \in CH_A..CH_Z \/ c \in CH_a..CH_z
isalnum(c) == isalpha(c) \/ isdigit(c)
isxdigit(c) == isdigit(c) \/ c \in CH_A..CH_F \/ c \in CH_a..CH_f

is_ws(c) == c = CH_SPACE \/ c = CH_TAB
is_b_digit(c) == c = CH_0 \/ c = CH_1
is_q_digit(c) == c \in CH_0..CH_7
is_plus_minus(c) == c = CH_PLUS \/ c = CH_MINUS
isH(c) == c = CH_h \/ c = CH_H
isB(c) == c = CH_b \/ c = CH_B
isQ(c) == c = CH_q \/ c = CH_Q
isE(c) == c = CH_e \/ c = CH_E

(* state->buffer + state->len <= state->pos *)
is_eos(b, p) == Len(b) <= p

(* state->pos[0]: the byte under the cursor.  Reading at or past the end   *)
(* of the buffer is an error of the model, as it is of the program.        *)
Cur(b, p) == b[p + 1]

ischr(b, p, chr) == Cur(b, p) = chr

(***************************************************************************)
(* Skip primitives.  Each returns the cursor after the skip; the count or  *)
(* SKIP_ code the C function returns is carried beside it where the        *)
(* callers use it.                                                         *)
(***************************************************************************)
RECURSIVE skipWs(_, _)
skipWs(b, p) ==
    IF ~is_eos(b, p) /\ is_ws(Cur(b, p)) THEN skipWs(b, p + 1) ELSE p

skipDigit(b, p) ==
    IF ~is_eos(b, p) /\ isdigit(Cur(b, p)) THEN p + 1 ELSE p

RECURSIVE skipNumbers(_, _)
skipNumbers(b, p) ==
    IF ~is_eos(b, p) /\ isdigit(Cur(b, p)) THEN skipNumbers(b, p + 1) ELSE p

skipPlusmn(b, p) ==
    IF ~is_eos(b, p) /\ is_plus_minus(Cur(b, p)) THEN p + 1 ELSE p

RECURSIVE skipAlpha(_, _)
skipAlpha(b, p) ==
    IF ~is_eos(b, p) /\ isalpha(Cur(b, p)) THEN skipAlpha(b, p + 1) ELSE p

skipChr(b, p, chr) ==
    IF ~is_eos(b, p) /\ ischr(b, p, chr) THEN p + 1 ELSE p

(* !is_eos(state) && ischr(state, '/') | ischr(state, '.'): `|` binds      *)
(* tighter than `&&`, so both reads are guarded by the end-of-buffer test. *)
skipSlashDot(b, p) ==
    IF ~is_eos(b, p) /\ (ischr(b, p, CH_SLASH) \/ ischr(b, p, CH_DOT))
    THEN p + 1 ELSE p

skipStar(b, p) ==
    IF ~is_eos(b, p) /\ ischr(b, p, CH_STAR) THEN p + 1 ELSE p

skipColon(b, p) ==
    IF ~is_eos(b, p) /\ ischr(b, p, CH_COLON) THEN p + 1 ELSE p

(* The loop over [a-z0-9_]* shared by skipProgramMnemonic and              *)
(* scpiLex_CharacterProgramData.                                           *)
RECURSIVE skipMnemonicTail(_, _)
skipMnemonicTail(b, p) ==
    IF ~is_eos(b, p) /\ (isalnum(Cur(b, p)) \/ ischr(b, p, CH_UNDERSCORE))
    THEN skipMnemonicTail(b, p + 1) ELSE p

(* Returns the number of bytes of the mnemonic, negated when the buffer    *)
(* ended with it.                                                          *)
skipProgramMnemonic(b, p) ==
    LET q == IF ~is_eos(b, p) /\ isalpha(Cur(b, p))
             THEN skipMnemonicTail(b, p + 1) ELSE p
    IN  [pos |-> q,
         res |-> IF is_eos(b, q) THEN (q - p) * SKIP_INCOMPLETE
                                 ELSE (q - p) * SKIP_OK]

(***************************************************************************)
(* Token detectors.  `tok` is the caller's token record as it stands when  *)
(* the call is made; a detector that assigns a field before using it does  *)
(* not depend on it.                                                       *)
(***************************************************************************)
Result(p, type, ptr, len, r) ==
    [pos |-> p, token |-> [type |-> type, ptr |-> ptr, len |-> len], ret |-> r]

scpiLex_WhiteSpace(b, p, tok) ==
    LET q == skipWs(b, p)
        len == q - p
    IN  IF len > 0 THEN Result(q, "WS", p, len, len)
                   ELSE Result(q, "UNKNOWN", p, len, len)

(* skipCommonProgramHeader reporting SKIP_NONE for a `*` that no mnemonic   *)
(* follows, so that the caller goes on to the compound header.             *)
skipCommonProgramHeader_NoneWithoutMnemonic(b, p) ==
    LET s == skipStar(b, p)
    IN  IF s # p
        THEN LET m == skipProgramMnemonic(b, s)
             IN  IF m.res = SKIP_NONE /\ is_eos(b, m.pos)
                 THEN [pos |-> m.pos, res |-> SKIP_INCOMPLETE]
                 ELSE IF m.res <= SKIP_INCOMPLETE \/ m.res >= SKIP_OK
                 THEN [pos |-> m.pos, res |-> SKIP_OK]
                 ELSE [pos |-> m.pos, res |-> SKIP_NONE]
        ELSE [pos |-> s, res |-> SKIP_NONE]

skipCommonProgramHeader(b, p) ==
    LET s == skipStar(b, p)
    IN  IF s # p
        THEN LET m == skipProgramMnemonic(b, s)
             IN  IF m.res = SKIP_NONE /\ is_eos(b, m.pos)
                 THEN [pos |-> m.pos, res |-> SKIP_INCOMPLETE]
                 ELSE IF m.res <= SKIP_INCOMPLETE \/ m.res >= SKIP_OK
                 THEN [pos |-> m.pos, res |-> SKIP_OK]
                 ELSE [pos |-> m.pos, res |-> SKIP_INCOMPLETE]
        ELSE [pos |-> s, res |-> SKIP_NONE]

(* The loop of skipCompoundProgramHeader without the SKIP_NONE test: a     *)
(* colon with no mnemonic after it ends the header.                        *)
RECURSIVE skipCompoundLoop_NoneEndsHeader(_, _)
skipCompoundLoop_NoneEndsHeader(b, p) ==
    LET c == skipColon(b, p)
    IN  IF c # p
        THEN LET m == skipProgramMnemonic(b, c)
             IN  IF m.res <= SKIP_INCOMPLETE \/ m.res = SKIP_NONE
                 THEN [pos |-> m.pos, res |-> SKIP_OK]
                 ELSE skipCompoundLoop_NoneEndsHeader(b, m.pos)
        ELSE [pos |-> c, res |-> SKIP_OK]

(* The loop of skipCompoundProgramHeader reporting SKIP_INCOMPLETE for a    *)
(* mnemonic the buffer ends in.                                            *)
RECURSIVE skipCompoundLoop_CutMnemonicIncomplete(_, _)
skipCompoundLoop_CutMnemonicIncomplete(b, p) ==
    LET c == skipColon(b, p)
    IN  IF c # p
        THEN LET m == skipProgramMnemonic(b, c)
             IN  IF m.res <= SKIP_INCOMPLETE \/ m.res = SKIP_NONE
                 THEN [pos |-> m.pos, res |-> SKIP_INCOMPLETE]
                 ELSE skipCompoundLoop_CutMnemonicIncomplete(b, m.pos)
        ELSE [pos |-> c, res |-> SKIP_OK]

(* while (skipColon(state)) { res = skipProgramMnemonic(state); ... }      *)
RECURSIVE skipCompoundLoop(_, _)
skipCompoundLoop(b, p) ==
    LET c == skipColon(b, p)
    IN  IF c # p
        THEN LET m == skipProgramMnemonic(b, c)
             IN  IF m.res <= SKIP_INCOMPLETE
                 THEN [pos |-> m.pos, res |-> SKIP_OK]
                 ELSE IF m.res = SKIP_NONE
                 THEN [pos |-> m.pos, res |-> SKIP_INCOMPLETE]
                 ELSE skipCompoundLoop(b, m.pos)
        ELSE [pos |-> c, res |-> SKIP_OK]

(* skipCompoundProgramHeader without the test of firstColon. *)
skipCompoundProgramHeader_NoFirstColonTest(b, p) ==
    LET c == skipColon(b, p)
        m == skipProgramMnemonic(b, c)
    IN  IF m.res >= SKIP_OK THEN skipCompoundLoop(b, m.pos)
        ELSE IF m.res <= SKIP_INCOMPLETE THEN [pos |-> m.pos, res |-> SKIP_OK]
        ELSE [pos |-> m.pos, res |-> SKIP_INCOMPLETE]

skipCompoundProgramHeader(b, p) ==
    LET c == skipColon(b, p)
        firstColon == c # p
        m == skipProgramMnemonic(b, c)
    IN  IF m.res >= SKIP_OK THEN skipCompoundLoop(b, m.pos)
        ELSE IF m.res <= SKIP_INCOMPLETE THEN [pos |-> m.pos, res |-> SKIP_OK]
        ELSE IF firstColon THEN [pos |-> m.pos, res |-> SKIP_INCOMPLETE]
        ELSE [pos |-> m.pos, res |-> SKIP_NONE]

(* The query test both branches of scpiLex_ProgramHeader make after a      *)
(* header was skipped: the type with or without the trailing `?`.          *)
HeaderOrQuery(b, p, plain, query) ==
    LET q == skipChr(b, p, CH_QUESTION)
    IN  IF q # p THEN [pos |-> q, type |-> query]
                 ELSE [pos |-> q, type |-> plain]

scpiLex_ProgramHeader(b, p, tok) ==
    LET common == skipCommonProgramHeader(b, p)
        compound == skipCompoundProgramHeader(b, common.pos)
        t == IF common.res >= SKIP_OK
             THEN HeaderOrQuery(b, common.pos, "COMMON_PROGRAM_HEADER",
                                "COMMON_QUERY_PROGRAM_HEADER")
             ELSE IF common.res <= SKIP_INCOMPLETE
             THEN [pos |-> common.pos,
                   type |-> "INCOMPLETE_COMMON_PROGRAM_HEADER"]
             ELSE IF compound.res >= SKIP_OK
             THEN HeaderOrQuery(b, compound.pos, "COMPOUND_PROGRAM_HEADER",
                                "COMPOUND_QUERY_PROGRAM_HEADER")
             ELSE IF compound.res <= SKIP_INCOMPLETE
             THEN [pos |-> compound.pos,
                   type |-> "INCOMPLETE_COMPOUND_PROGRAM_HEADER"]
             ELSE [pos |-> compound.pos, type |-> "UNKNOWN"]
    IN  IF t.type # "UNKNOWN"
        THEN Result(t.pos, t.type, p, t.pos - p, t.pos - p)
        ELSE Result(p, "UNKNOWN", p, 0, 0)

scpiLex_CharacterProgramData(b, p, tok) ==
    LET q == IF ~is_eos(b, p) /\ isalpha(Cur(b, p))
             THEN skipMnemonicTail(b, p + 1) ELSE p
        len == q - p
    IN  IF len > 0 THEN Result(q, "PROGRAM_MNEMONIC", p, len, len)
                   ELSE Result(q, "UNKNOWN", p, len, len)

(* The cursor after the mantissa and the number of digits in it. *)
skipMantissa(b, p) ==
    LET s == skipPlusmn(b, p)
        n == skipNumbers(b, s)
        d == skipChr(b, n, CH_DOT)
        f == IF d # n THEN skipNumbers(b, d) ELSE d
    IN  [pos |-> f, someNumbers |-> (n - s) + (IF d # n THEN f - d ELSE 0)]

(* The cursor after the exponent attempt and the number of digits in it. *)
skipExponent(b, p) ==
    IF ~is_eos(b, p) /\ isE(Cur(b, p))
    THEN LET w == skipWs(b, p + 1)
             s == skipPlusmn(b, w)
             n == skipNumbers(b, s)
         IN  [pos |-> n, someNumbers |-> n - s]
    ELSE [pos |-> p, someNumbers |-> 0]

(* scpiLex_DecimalNumericProgramData without the rollback of a failed     *)
(* exponent.                                                               *)
scpiLex_DecimalNumericProgramData_NoRollback(b, p, tok) ==
    LET m == skipMantissa(b, p)
        e == skipExponent(b, skipWs(b, m.pos))
        q == IF m.someNumbers # 0 THEN e.pos ELSE p
        len == q - p
    IN  IF len > 0 THEN Result(q, "DECIMAL_NUMERIC_PROGRAM_DATA", p, len, len)
                   ELSE Result(q, "UNKNOWN", p, len, len)

scpiLex_DecimalNumericProgramData(b, p, tok) ==
    LET m == skipMantissa(b, p)
        rollback == m.pos
        e == skipExponent(b, skipWs(b, m.pos))
        q == IF m.someNumbers # 0
             THEN (IF e.someNumbers = 0 THEN rollback ELSE e.pos)
             ELSE p
        len == q - p
    IN  IF len > 0 THEN Result(q, "DECIMAL_NUMERIC_PROGRAM_DATA", p, len, len)
                   ELSE Result(q, "UNKNOWN", p, len, len)

(* One (ALPHA* MINUS? DIGIT?) group of the suffix loop. *)
skipSuffixUnit(b, p) == skipDigit(b, skipChr(b, skipAlpha(b, p), CH_MINUS))

(* while (skipSlashDot(state)) { skipAlpha; skipChr('-'); skipDigit; } *)
RECURSIVE skipSuffixLoop(_, _)
skipSuffixLoop(b, p) ==
    LET s == skipSlashDot(b, p)
    IN  IF s # p THEN skipSuffixLoop(b, skipSuffixUnit(b, s)) ELSE s

scpiLex_SuffixProgramData(b, p, tok) ==
    LET s == skipChr(b, p, CH_SLASH)
        a == skipAlpha(b, s)
        q == IF a # s
             THEN skipSuffixLoop(b, skipDigit(b, skipChr(b, a, CH_MINUS)))
             ELSE a
        len == q - p
    IN  IF len > 0 THEN Result(q, "SUFFIX_PROGRAM_DATA", p, len, len)
                   ELSE Result(p, "UNKNOWN", p, 0, 0)

RECURSIVE skipHexNum(_, _)
skipHexNum(b, p) ==
    IF ~is_eos(b, p) /\ isxdigit(Cur(b, p)) THEN skipHexNum(b, p + 1) ELSE p

RECURSIVE skipOctNum(_, _)
skipOctNum(b, p) ==
    IF ~is_eos(b, p) /\ is_q_digit(Cur(b, p)) THEN skipOctNum(b, p + 1) ELSE p

RECURSIVE skipBinNum(_, _)
skipBinNum(b, p) ==
    IF ~is_eos(b, p) /\ is_b_digit(Cur(b, p)) THEN skipBinNum(b, p + 1) ELSE p

(* scpiLex_NondecimalNumericData returning the digit count without the    *)
(* two bytes of the prefix.                                                *)
scpiLex_NondecimalNumericData_NoPrefixInReturn(b, p, tok) ==
    LET h == skipChr(b, p, CH_HASH)
        based == h # p /\ ~is_eos(b, h)
        n == IF based /\ isH(Cur(b, h))
             THEN [pos |-> skipHexNum(b, h + 1), type |-> "HEXNUM"]
             ELSE IF based /\ isQ(Cur(b, h))
             THEN [pos |-> skipOctNum(b, h + 1), type |-> "OCTNUM"]
             ELSE IF based /\ isB(Cur(b, h))
             THEN [pos |-> skipBinNum(b, h + 1), type |-> "BINNUM"]
             ELSE [pos |-> h, type |-> tok.type]
        someNumbers == IF n.pos > h THEN n.pos - (h + 1) ELSE 0
    IN  IF someNumbers # 0
        THEN Result(n.pos, n.type, p + 2, n.pos - (p + 2), n.pos - (p + 2))
        ELSE Result(p, "UNKNOWN", p, 0, 0)

scpiLex_NondecimalNumericData(b, p, tok) ==
    LET h == skipChr(b, p, CH_HASH)
        based == h # p /\ ~is_eos(b, h)
        n == IF based /\ isH(Cur(b, h))
             THEN [pos |-> skipHexNum(b, h + 1), type |-> "HEXNUM"]
             ELSE IF based /\ isQ(Cur(b, h))
             THEN [pos |-> skipOctNum(b, h + 1), type |-> "OCTNUM"]
             ELSE IF based /\ isB(Cur(b, h))
             THEN [pos |-> skipBinNum(b, h + 1), type |-> "BINNUM"]
             ELSE [pos |-> h, type |-> tok.type]
        someNumbers == IF n.pos > h THEN n.pos - (h + 1) ELSE 0
    IN  IF someNumbers # 0
        THEN Result(n.pos, n.type, p + 2, n.pos - (p + 2), n.pos - (p + 2) + 2)
        ELSE Result(p, "UNKNOWN", p, 0, 0)

isascii7bit(c) == c >= 0 /\ c <= CH_ASCII_LAST

(* skipQuoteProgramData stopping at the first quote, doubled or not. *)
RECURSIVE skipQuoteProgramData_NoDoubling(_, _, _)
skipQuoteProgramData_NoDoubling(b, p, quote) ==
    IF is_eos(b, p) THEN p
    ELSE IF isascii7bit(Cur(b, p)) /\ ~ischr(b, p, quote)
    THEN skipQuoteProgramData_NoDoubling(b, p + 1, quote)
    ELSE p

RECURSIVE skipQuoteProgramData(_, _, _)
skipQuoteProgramData(b, p, quote) ==
    IF is_eos(b, p) THEN p
    ELSE IF isascii7bit(Cur(b, p)) /\ ~ischr(b, p, quote)
    THEN skipQuoteProgramData(b, p + 1, quote)
    ELSE IF ischr(b, p, quote)
    THEN (IF ~is_eos(b, p + 1) /\ ischr(b, p + 1, quote)
          THEN skipQuoteProgramData(b, p + 2, quote)
          ELSE p)
    ELSE p

skipDoubleQuoteProgramData(b, p) == skipQuoteProgramData(b, p, CH_DQUOTE)

skipSingleQuoteProgramData(b, p) == skipQuoteProgramData(b, p, CH_SQUOTE)

(* The closing-quote test after the body: the cursor after the closing     *)
(* quote, or the token start when the quote is missing.                    *)
closeQuote(b, p, body, quote) ==
    IF ~is_eos(b, body) /\ ischr(b, body, quote) THEN body + 1 ELSE p

scpiLex_StringProgramData(b, p, tok) ==
    LET s == IF is_eos(b, p) THEN [pos |-> p, type |-> tok.type]
             ELSE IF ischr(b, p, CH_DQUOTE)
             THEN [pos  |-> closeQuote(b, p,
                               skipDoubleQuoteProgramData(b, p + 1), CH_DQUOTE),
                   type |-> "DOUBLE_QUOTE_PROGRAM_DATA"]
             ELSE IF ischr(b, p, CH_SQUOTE)
             THEN [pos  |-> closeQuote(b, p,
                               skipSingleQuoteProgramData(b, p + 1), CH_SQUOTE),
                   type |-> "SINGLE_QUOTE_PROGRAM_DATA"]
             ELSE [pos |-> p, type |-> tok.type]
        len == s.pos - p
    IN  IF len > 0 THEN Result(s.pos, s.type, p, len, len)
                   ELSE Result(p, "UNKNOWN", p, 0, 0)

(* isNonzeroDigit without `&& c != '0'`. *)
isNonzeroDigit_AnyDigit(c) == isdigit(c)

(* isdigit(c) && c != '0' *)
isNonzeroDigit(c) == isdigit(c) /\ c # CH_0

(* for (; i > 0; i--) { digit: accumulate the length; else break }         *)
(* The cursor, the digits still missing and the length read so far.        *)
RECURSIVE blockLengthDigits(_, _, _, _)
blockLengthDigits(b, p, i, arbitraryBlockLength) ==
    IF i > 0 /\ ~is_eos(b, p) /\ isdigit(Cur(b, p))
    THEN blockLengthDigits(b, p + 1, i - 1,
                           arbitraryBlockLength * 10 + (Cur(b, p) - CH_0))
    ELSE [pos |-> p, i |-> i, arbitraryBlockLength |-> arbitraryBlockLength]

(* blockScan requiring a byte after the payload: `>` for `>=`. *)
blockScan_StrictBound(b, p) ==
    LET h == skipChr(b, p, CH_HASH)
    IN  IF h # p
        THEN IF ~is_eos(b, h) /\ isNonzeroDigit(Cur(b, h))
             THEN LET d == blockLengthDigits(b, h + 1, Cur(b, h) - CH_0, 0)
                      e == d.pos + d.arbitraryBlockLength
                  IN  IF d.i = 0
                      THEN IF Len(b) > e
                           THEN [validData |-> 1, pos |-> e,
                                 ptr |-> e - d.arbitraryBlockLength,
                                 len |-> d.arbitraryBlockLength]
                           ELSE [validData |-> 0, pos |-> e, ptr |-> p, len |-> 0]
                      ELSE IF is_eos(b, d.pos)
                      THEN [validData |-> 0, pos |-> d.pos, ptr |-> p, len |-> 0]
                      ELSE [validData |-> -1, pos |-> d.pos, ptr |-> p, len |-> 0]
             ELSE IF is_eos(b, h)
             THEN [validData |-> 0, pos |-> h, ptr |-> p, len |-> 0]
             ELSE [validData |-> -1, pos |-> h, ptr |-> p, len |-> 0]
        ELSE [validData |-> -1, pos |-> h, ptr |-> p, len |-> 0]

(* blockScan without `else if (is_eos(state))` after the length digits: a  *)
(* header the buffer cuts off counts as invalid.                           *)
blockScan_CutHeaderInvalid(b, p) ==
    LET h == skipChr(b, p, CH_HASH)
    IN  IF h # p
        THEN IF ~is_eos(b, h) /\ isNonzeroDigit(Cur(b, h))
             THEN LET d == blockLengthDigits(b, h + 1, Cur(b, h) - CH_0, 0)
                      e == d.pos + d.arbitraryBlockLength
                  IN  IF d.i = 0
                      THEN IF Len(b) >= e
                           THEN [validData |-> 1, pos |-> e,
                                 ptr |-> e - d.arbitraryBlockLength,
                                 len |-> d.arbitraryBlockLength]
                           ELSE [validData |-> 0, pos |-> e, ptr |-> p, len |-> 0]
                      ELSE [validData |-> -1, pos |-> d.pos, ptr |-> p, len |-> 0]
             ELSE IF is_eos(b, h)
             THEN [validData |-> 0, pos |-> h, ptr |-> p, len |-> 0]
             ELSE [validData |-> -1, pos |-> h, ptr |-> p, len |-> 0]
        ELSE [validData |-> -1, pos |-> h, ptr |-> p, len |-> 0]

(* blockScan without the test that the declared length fits the buffer. *)
blockScan_NoBoundCheck(b, p) ==
    LET h == skipChr(b, p, CH_HASH)
    IN  IF h # p
        THEN IF ~is_eos(b, h) /\ isNonzeroDigit(Cur(b, h))
             THEN LET d == blockLengthDigits(b, h + 1, Cur(b, h) - CH_0, 0)
                      e == d.pos + d.arbitraryBlockLength
                  IN  IF d.i = 0
                      THEN [validData |-> 1, pos |-> e,
                            ptr |-> e - d.arbitraryBlockLength,
                            len |-> d.arbitraryBlockLength]
                      ELSE IF is_eos(b, d.pos)
                      THEN [validData |-> 0, pos |-> d.pos, ptr |-> p, len |-> 0]
                      ELSE [validData |-> -1, pos |-> d.pos, ptr |-> p, len |-> 0]
             ELSE IF is_eos(b, h)
             THEN [validData |-> 0, pos |-> h, ptr |-> p, len |-> 0]
             ELSE [validData |-> -1, pos |-> h, ptr |-> p, len |-> 0]
        ELSE [validData |-> -1, pos |-> h, ptr |-> p, len |-> 0]

(* The part of scpiLex_ArbitraryBlockProgramData that decides validData    *)
(* (1 valid, 0 incomplete, -1 invalid), with the cursor it reaches and the *)
(* token range it assigns when the block is valid.                         *)
blockScan(b, p) ==
    LET h == skipChr(b, p, CH_HASH)
    IN  IF h # p
        THEN IF ~is_eos(b, h) /\ isNonzeroDigit(Cur(b, h))
             THEN LET d == blockLengthDigits(b, h + 1, Cur(b, h) - CH_0, 0)
                      e == d.pos + d.arbitraryBlockLength
                  IN  IF d.i = 0
                      THEN IF Len(b) >= e
                           THEN [validData |-> 1, pos |-> e,
                                 ptr |-> e - d.arbitraryBlockLength,
                                 len |-> d.arbitraryBlockLength]
                           ELSE [validData |-> 0, pos |-> e, ptr |-> p, len |-> 0]
                      ELSE IF is_eos(b, d.pos)
                      THEN [validData |-> 0, pos |-> d.pos, ptr |-> p, len |-> 0]
                      ELSE [validData |-> -1, pos |-> d.pos, ptr |-> p, len |-> 0]
             ELSE IF is_eos(b, h)
             THEN [validData |-> 0, pos |-> h, ptr |-> p, len |-> 0]
             ELSE [validData |-> -1, pos |-> h, ptr |-> p, len |-> 0]
        ELSE [validData |-> -1, pos |-> h, ptr |-> p, len |-> 0]

(* scpiLex_ArbitraryBlockProgramData leaving the cursor where the scan of  *)
(* an invalid block stopped.                                               *)
scpiLex_ArbitraryBlockProgramData_NoRestore(b, p, tok) ==
    LET s == blockScan(b, p)
    IN  IF s.validData = 1
        THEN Result(s.pos, "ARBITRARY_BLOCK_PROGRAM_DATA", s.ptr, s.len,
                    s.len + (s.ptr - p))
        ELSE IF s.validData = 0
        THEN Result(Len(b), "UNKNOWN", s.ptr, 0, 0 + (s.ptr - p))
        ELSE Result(s.pos, "UNKNOWN", s.ptr, 0, 0 + (s.ptr - p))

scpiLex_ArbitraryBlockProgramData(b, p, tok) ==
    LET s == blockScan(b, p)
    IN  IF s.validData = 1
        THEN Result(s.pos, "ARBITRARY_BLOCK_PROGRAM_DATA", s.ptr, s.len,
                    s.len + (s.ptr - p))
        ELSE IF s.validData = 0
        THEN Result(Len(b), "UNKNOWN", s.ptr, 0, 0 + (s.ptr - p))
        ELSE Result(s.ptr, "UNKNOWN", s.ptr, 0, 0 + (s.ptr - p))

isProgramExpression(c) ==
    /\ c >= CH_SPACE /\ c <= CH_PRINT_LAST
    /\ c # CH_DQUOTE /\ c # CH_HASH /\ c # CH_SQUOTE
    /\ c # CH_LPAREN /\ c # CH_RPAREN /\ c # CH_SEMICOLON

RECURSIVE skipProgramExpression(_, _)
skipProgramExpression(b, p) ==
    IF ~is_eos(b, p) /\ isProgramExpression(Cur(b, p))
    THEN skipProgramExpression(b, p + 1) ELSE p

(* token->len is assigned only when the byte at the cursor is `(`:         *)
(* otherwise the test `token->len > 0` reads what the caller's record      *)
(* held before the call.                                                   *)
scpiLex_ProgramExpression(b, p, tok) ==
    LET open == ~is_eos(b, p) /\ ischr(b, p, CH_LPAREN)
        e == skipProgramExpression(b, p + 1)
        closed == ~is_eos(b, e) /\ ischr(b, e, CH_RPAREN)
        q == IF open /\ closed THEN e + 1 ELSE IF open THEN e ELSE p
        len == IF open THEN (IF closed THEN q - p ELSE 0) ELSE tok.len
    IN  IF len > 0 THEN Result(q, "PROGRAM_EXPRESSION", p, len, len)
                   ELSE Result(p, "UNKNOWN", p, 0, 0)

(* The body scpiLex_Comma, _Semicolon, _Colon and _SpecificCharacter       *)
(* share: one exact byte or nothing.                                       *)
lexChr(b, p, chr, type) ==
    LET q == skipChr(b, p, chr)
    IN  IF q # p THEN Result(q, type, p, 1, 1)
                 ELSE Result(q, "UNKNOWN", p, 0, 0)

scpiLex_Comma(b, p, tok) == lexChr(b, p, CH_COMMA, "COMMA")

scpiLex_Semicolon(b, p, tok) == lexChr(b, p, CH_SEMICOLON, "SEMICOLON")

scpiLex_Colon(b, p, tok) == lexChr(b, p, CH_COLON, "COLON")

scpiLex_SpecificCharacter(b, p, tok, chr) ==
    lexChr(b, p, chr, "SPECIFIC_CHARACTER")

scpiLex_NewLine(b, p, tok) ==
    LET q == skipChr(b, skipChr(b, p, CH_CR), CH_LF)
        len == q - p
    IN  IF len > 0 THEN Result(q, "NL", p, len, len)
                   ELSE Result(p, "UNKNOWN", p, 0, 0)

(***************************************************************************)
(* The bytes a call examines.  For every function above, <name>_reads is   *)
(* the set of offsets at which the function, entered with the cursor at p, *)
(* evaluates state->pos[0] (directly or through ischr).  The cursor        *)
(* positions are those the function itself computes.                       *)
(***************************************************************************)
(* state->pos[0] with the cursor at p. *)
ReadAt(p) == {p}

(* !is_eos(state) && ... state->pos[0] ...: the byte is examined only when *)
(* the end-of-buffer test lets the evaluation go on.                       *)
GuardedRead(b, p) == IF is_eos(b, p) THEN {} ELSE ReadAt(p)

(* while (!is_eos(state) && test(state->pos[0])) state->pos++, entered at  *)
(* p and left at q: every iteration, and the one that ends the loop, tests *)
(* the end of the buffer and then the byte.                                *)
RunReads(b, p, q) == UNION {GuardedRead(b, k) : k \in p..q}

skipWs_reads(b, p) == RunReads(b, p, skipWs(b, p))

skipDigit_reads(b, p) == GuardedRead(b, p)

skipNumbers_reads(b, p) == RunReads(b, p, skipNumbers(b, p))

skipPlusmn_reads(b, p) == GuardedRead(b, p)

skipAlpha_reads(b, p) == RunReads(b, p, skipAlpha(b, p))

skipChr_reads(b, p) == GuardedRead(b, p)

(* skipSlashDot read as (!is_eos(state) && ischr(state, '/')) |            *)
(* ischr(state, '.'): the test for `.` examines the byte in every case.    *)
skipSlashDot_reads_DotUnguarded(b, p) == GuardedRead(b, p) \cup ReadAt(p)

(* !is_eos(state) && (ischr(state, '/') | ischr(state, '.')) *)
skipSlashDot_reads(b, p) == GuardedRead(b, p) \cup GuardedRead(b, p)

skipStar_reads(b, p) == GuardedRead(b, p)

skipColon_reads(b, p) == GuardedRead(b, p)

skipProgramMnemonic_reads(b, p) ==
    GuardedRead(b, p)
        \cup (IF ~is_eos(b, p) /\ isalpha(Cur(b, p))
              THEN RunReads(b, p + 1, skipMnemonicTail(b, p + 1)) ELSE {})

scpiLex_WhiteSpace_reads(b, p) == skipWs_reads(b, p)

skipCommonProgramHeader_reads(b, p) ==
    skipStar_reads(b, p)
        \cup (IF skipStar(b, p) # p
              THEN skipProgramMnemonic_reads(b, skipStar(b, p)) ELSE {})

RECURSIVE skipCompoundLoop_reads(_, _)
skipCompoundLoop_reads(b, p) ==
    LET c == skipColon(b, p)
        m == skipProgramMnemonic(b, c)
    IN  skipColon_reads(b, p)
            \cup (IF c # p
                  THEN skipProgramMnemonic_reads(b, c)
                           \cup (IF m.res >= SKIP_OK
                                 THEN skipCompoundLoop_reads(b, m.pos) ELSE {})
                  ELSE {})

skipCompoundProgramHeader_reads(b, p) ==
    LET c == skipColon(b, p)
        m == skipProgramMnemonic(b, c)
    IN  skipColon_reads(b, p)
            \cup skipProgramMnemonic_reads(b, c)
            \cup (IF m.res >= SKIP_OK
                  THEN skipCompoundLoop_reads(b, m.pos) ELSE {})

scpiLex_ProgramHeader_reads(b, p) ==
    LET common == skipCommonProgramHeader(b, p)
        compound == skipCompoundProgramHeader(b, common.pos)
    IN  skipCommonProgramHeader_reads(b, p)
            \cup (IF common.res >= SKIP_OK
                  THEN skipChr_reads(b, common.pos)
                  ELSE IF common.res <= SKIP_INCOMPLETE THEN {}
                  ELSE skipCompoundProgramHeader_reads(b, common.pos)
                           \cup (IF compound.res >= SKIP_OK
                                 THEN skipChr_reads(b, compound.pos)
                                 ELSE {}))

scpiLex_CharacterProgramData_reads(b, p) == skipProgramMnemonic_reads(b, p)

skipMantissa_reads(b, p) ==
    LET s == skipPlusmn(b, p)
        n == skipNumbers(b, s)
        d == skipChr(b, n, CH_DOT)
    IN  skipPlusmn_reads(b, p)
            \cup skipNumbers_reads(b, s)
            \cup skipChr_reads(b, n)
            \cup (IF d # n THEN skipNumbers_reads(b, d) ELSE {})

skipExponent_reads(b, p) ==
    GuardedRead(b, p)
        \cup (IF ~is_eos(b, p) /\ isE(Cur(b, p))
              THEN LET w == skipWs(b, p + 1)
                       s == skipPlusmn(b, w)
                   IN  skipWs_reads(b, p + 1)
                           \cup skipPlusmn_reads(b, w)
                           \cup skipNumbers_reads(b, s)
              ELSE {})

scpiLex_DecimalNumericProgramData_reads(b, p) ==
    LET m == skipMantissa(b, p)
    IN  skipMantissa_reads(b, p)
            \cup (IF m.someNumbers # 0
                  THEN skipWs_reads(b, m.pos)
                           \cup skipExponent_reads(b, skipWs(b, m.pos))
                  ELSE {})

skipSuffixUnit_reads(b, p) ==
    LET a == skipAlpha(b, p)
        m == skipChr(b, a, CH_MINUS)
    IN  skipAlpha_reads(b, p) \cup skipChr_reads(b, a) \cup skipDigit_reads(b, m)

RECURSIVE skipSuffixLoop_reads(_, _)
skipSuffixLoop_reads(b, p) ==
    LET s == skipSlashDot(b, p)
    IN  skipSlashDot_reads(b, p)
            \cup (IF s # p
                  THEN skipSuffixUnit_reads(b, s)
                           \cup skipSuffixLoop_reads(b, skipSuffixUnit(b, s))
                  ELSE {})

scpiLex_SuffixProgramData_reads(b, p) ==
    LET s == skipChr(b, p, CH_SLASH)
        a == skipAlpha(b, s)
        m == skipChr(b, a, CH_MINUS)
    IN  skipChr_reads(b, p)
            \cup skipAlpha_reads(b, s)
            \cup (IF a # s
                  THEN skipChr_reads(b, a)
                           \cup skipDigit_reads(b, m)
                           \cup skipSuffixLoop_reads(b, skipDigit(b, m))
                  ELSE {})

scpiLex_NondecimalNumericData_reads(b, p) ==
    LET h == skipChr(b, p, CH_HASH)
        based == h # p /\ ~is_eos(b, h)
    IN  skipChr_reads(b, p)
            \cup (IF based
                  THEN ReadAt(h)
                           \cup (IF isH(Cur(b, h))
                                 THEN RunReads(b, h + 1, skipHexNum(b, h + 1))
                                 ELSE IF isQ(Cur(b, h))
                                 THEN RunReads(b, h + 1, skipOctNum(b, h + 1))
                                 ELSE IF isB(Cur(b, h))
                                 THEN RunReads(b, h + 1, skipBinNum(b, h + 1))
                                 ELSE {})
                  ELSE {})

(* Inside while (!is_eos(state)) the byte under the cursor is examined     *)
(* without a further test; after the state->pos++ over a quote the next    *)
(* byte is examined under its own end-of-buffer test.                      *)
RECURSIVE skipQuoteProgramData_reads(_, _, _)
skipQuoteProgramData_reads(b, p, quote) ==
    IF is_eos(b, p) THEN {}
    ELSE ReadAt(p)
             \cup (IF isascii7bit(Cur(b, p)) /\ ~ischr(b, p, quote)
                   THEN skipQuoteProgramData_reads(b, p + 1, quote)
                   ELSE IF ischr(b, p, quote)
                   THEN GuardedRead(b, p + 1)
                            \cup (IF ~is_eos(b, p + 1) /\ ischr(b, p + 1, quote)
                                  THEN skipQuoteProgramData_reads(b, p + 2, quote)
                                  ELSE {})
                   ELSE {})

scpiLex_StringProgramData_reads(b, p) ==
    IF is_eos(b, p) THEN {}
    ELSE ReadAt(p)
             \cup (IF ischr(b, p, CH_DQUOTE)
                   THEN skipQuoteProgramData_reads(b, p + 1, CH_DQUOTE)
                            \cup GuardedRead(b,
                                     skipDoubleQuoteProgramData(b, p + 1))
                   ELSE IF ischr(b, p, CH_SQUOTE)
                   THEN skipQuoteProgramData_reads(b, p + 1, CH_SQUOTE)
                            \cup GuardedRead(b,
                                     skipSingleQuoteProgramData(b, p + 1))
                   ELSE {})

(* The length digits: each turn of the for loop tests the end of the       *)
(* buffer and then the byte; no byte is examined once i has reached 0.     *)
blockLengthDigits_reads(b, p, i) ==
    LET d == blockLengthDigits(b, p, i, 0)
    IN  RunReads(b, p, d.pos - 1)
            \cup (IF d.i > 0 THEN GuardedRead(b, d.pos) ELSE {})

(* `#`, the digit N (tested, then read again for i), the length digits.    *)
(* state->pos += arbitraryBlockLength and the comparison with the end of   *)
(* the buffer examine no byte.                                             *)
scpiLex_ArbitraryBlockProgramData_reads(b, p) ==
    LET h == skipChr(b, p, CH_HASH)
    IN  skipChr_reads(b, p)
            \cup (IF h # p
                  THEN GuardedRead(b, h)
                           \cup (IF ~is_eos(b, h) /\ isNonzeroDigit(Cur(b, h))
                                 THEN ReadAt(h)
                                          \cup blockLengthDigits_reads(b, h + 1,
                                                   Cur(b, h) - CH_0)
                                 ELSE {})
                  ELSE {})

scpiLex_ProgramExpression_reads(b, p) ==
    GuardedRead(b, p)
        \cup (IF ~is_eos(b, p) /\ ischr(b, p, CH_LPAREN)
              THEN RunReads(b, p + 1, skipProgramExpression(b, p + 1))
                       \cup GuardedRead(b, skipProgramExpression(b, p + 1))
              ELSE {})

lexChr_reads(b, p) == skipChr_reads(b, p)

scpiLex_NewLine_reads(b, p) ==
    skipChr_reads(b, p) \cup skipChr_reads(b, skipChr(b, p, CH_CR))

(* The bytes the detector called `d` examines at cursor p of buffer b. *)
DetectorReads(d, b, p) ==
    CASE d = "WhiteSpace" -> scpiLex_WhiteSpace_reads(b, p)
      [] d = "ProgramHeader" -> scpiLex_ProgramHeader_reads(b, p)
      [] d = "CharacterProgramData" -> scpiLex_CharacterProgramData_reads(b, p)
      [] d = "DecimalNumericProgramData" ->
            scpiLex_DecimalNumericProgramData_reads(b, p)
      [] d = "SuffixProgramData" -> scpiLex_SuffixProgramData_reads(b, p)
      [] d = "NondecimalNumericData" ->
            scpiLex_NondecimalNumericData_reads(b, p)
      [] d = "StringProgramData" -> scpiLex_StringProgramData_reads(b, p)
      [] d = "ArbitraryBlockProgramData" ->
            scpiLex_ArbitraryBlockProgramData_reads(b, p)
      [] d = "ProgramExpression" -> scpiLex_ProgramExpression_reads(b, p)
      [] d \in {"Comma", "Semicolon", "Colon", "SpecificCharacter"} ->
            lexChr_reads(b, p)
      [] d = "NewLine" -> scpiLex_NewLine_reads(b, p)

(***************************************************************************)
(* The state machine.  `buffer` and `pos` are the lexer state, `token` the *)
(* caller's token record, `ret` the value the last call returned.  `det`   *)
(* names the detector called last, `start` is the cursor that call started *)
(* from, and `retries` counts the successive incomplete arbitrary-block    *)
(* results a streaming caller has seen at that cursor.                     *)
(***************************************************************************)
SeqsUpTo(A, n) == UNION {[1..k -> A] : k \in 0..n}

(* What an unassigned token->len may hold when a detector is entered. *)
StaleLens == {0, 1}

InitOver(A, n) ==
    /\ buffer \in SeqsUpTo(A, n)
    /\ pos \in 0..Len(buffer)
    /\ start = pos
    /\ token \in [type : {"UNKNOWN"}, ptr : {0}, len : StaleLens]
    /\ ret = 0
    /\ det = "none"
    /\ retries = 0

(* A detector call: the lexer state and the token record take the values   *)
(* the detector leaves, the buffer is not written.                         *)
Call(name, r, n) ==
    /\ pos' = r.pos
    /\ token' = r.token
    /\ ret' = r.ret
    /\ det' = name
    /\ start' = pos
    /\ retries' = n
    /\ UNCHANGED buffer

WhiteSpace == Call("WhiteSpace", scpiLex_WhiteSpace(buffer, pos, token), 0)

ProgramHeader ==
    Call("ProgramHeader", scpiLex_ProgramHeader(buffer, pos, token), 0)

CharacterProgramData ==
    Call("CharacterProgramData",
         scpiLex_CharacterProgramData(buffer, pos, token), 0)

DecimalNumericProgramData ==
    Call("DecimalNumericProgramData",
         scpiLex_DecimalNumericProgramData(buffer, pos, token), 0)

SuffixProgramData ==
    Call("SuffixProgramData", scpiLex_SuffixProgramData(buffer, pos, token), 0)

NondecimalNumericData ==
    Call("NondecimalNumericData",
         scpiLex_NondecimalNumericData(buffer, pos, token), 0)

StringProgramData ==
    Call("StringProgramData", scpiLex_StringProgramData(buffer, pos, token), 0)

ArbitraryBlockProgramData ==
    LET validData == blockScan(buffer, pos).validData
    IN  Call("ArbitraryBlockProgramData",
             scpiLex_ArbitraryBlockProgramData(buffer, pos, token),
             IF validData = 0 THEN retries + 1
             ELSE IF validData = 1 THEN retries ELSE 0)

ProgramExpression ==
    Call("ProgramExpression", scpiLex_ProgramExpression(buffer, pos, token), 0)

Comma == Call("Comma", scpiLex_Comma(buffer, pos, token), 0)

Semicolon == Call("Semicolon", scpiLex_Semicolon(buffer, pos, token), 0)

Colon == Call("Colon", scpiLex_Colon(buffer, pos, token), 0)

(* The characters callers ask scpiLex_SpecificCharacter for. *)
SpecificChars == {CH_HASH, CH_1}

SpecificCharacter ==
    \E chr \in SpecificChars :
        Call("SpecificCharacter",
             scpiLex_SpecificCharacter(buffer, pos, token, chr), 0)

NewLine == Call("NewLine", scpiLex_NewLine(buffer, pos, token), 0)

(* The streaming caller: one more byte has arrived, the buffer is extended *)
(* by it and scanning is taken up again, with a fresh token record, at the *)
(* cursor the last call started from.                                      *)
Input(ch, n) ==
    /\ Len(buffer) < n
    /\ buffer' = Append(buffer, ch)
    /\ pos' = start
    /\ token' \in [type : {"UNKNOWN"}, ptr : {0}, len : StaleLens]
    /\ ret' = 0
    /\ det' = "none"
    /\ UNCHANGED <<start, retries>>

Lex ==
    \/ WhiteSpace
    \/ ProgramHeader
    \/ CharacterProgramData
    \/ DecimalNumericProgramData
    \/ SuffixProgramData
    \/ NondecimalNumericData
    \/ StringProgramData
    \/ ArbitraryBlockProgramData
    \/ ProgramExpression
    \/ Comma
    \/ Semicolon
    \/ Colon
    \/ SpecificCharacter
    \/ NewLine

(* Any detectors in any order over buffers of bytes of every class. *)
AnyBytes ==
    {CH_SPACE, CH_STAR, CH_COLON, CH_E, CH_1, CH_HASH, CH_DQUOTE,
     CH_LPAREN, CH_RPAREN, CH_COMMA, CH_LF}

Init == InitOver(AnyBytes, MaxAnyLen)

InputAny == \E ch \in AnyBytes : Input(ch, MaxAnyLen)

Next == Lex \/ InputAny

Spec == Init /\ [][Next]_vars

(* The two detectors of data that starts with `#`, over blocks whose       *)
(* payload holds `#`, quotes, digits and non-ASCII bytes.                  *)
BlockBytes == {CH_HASH, CH_0, CH_1, CH_2, CH_DQUOTE, CH_HIGH}

InitBlock == InitOver(BlockBytes, MaxLen)

InputBlock == \E ch \in BlockBytes : Input(ch, MaxLen)

NextBlock ==
    \/ ArbitraryBlockProgramData
    \/ NondecimalNumericData
    \/ InputBlock

SpecBlock == InitBlock /\ [][NextBlock]_vars

NumBytes == {CH_HASH, CH_H, CH_Q, CH_B, CH_1, CH_9}

InitNum == InitOver(NumBytes, MaxLen)

InputNum == \E ch \in NumBytes : Input(ch, MaxLen)

NextNum ==
    \/ NondecimalNumericData
    \/ ArbitraryBlockProgramData
    \/ InputNum

SpecNum == InitNum /\ [][NextNum]_vars

StringBytes == {CH_DQUOTE, CH_SQUOTE, CH_a, CH_HIGH}

InitString == InitOver(StringBytes, MaxLen)

InputString == \E ch \in StringBytes : Input(ch, MaxLen)

NextString ==
    \/ StringProgramData
    \/ CharacterProgramData
    \/ InputString

SpecString == InitString /\ [][NextString]_vars

(* Headers, and the `#` and digit a truncated block needs. *)
HeaderBytes == {CH_STAR, CH_COLON, CH_QUESTION, CH_A, CH_1, CH_HASH}

InitHeader == InitOver(HeaderBytes, MaxLen)

InputHeader == \E ch \in HeaderBytes : Input(ch, MaxLen)

NextHeader ==
    \/ ProgramHeader
    \/ ArbitraryBlockProgramData
    \/ InputHeader

SpecHeader == InitHeader /\ [][NextHeader]_vars

DecimalBytes == {CH_PLUS, CH_DOT, CH_1, CH_E, CH_SPACE}

InitDecimal == InitOver(DecimalBytes, MaxLen)

InputDecimal == \E ch \in DecimalBytes : Input(ch, MaxLen)

NextDecimal ==
    \/ DecimalNumericProgramData
    \/ WhiteSpace
    \/ InputDecimal

SpecDecimal == InitDecimal /\ [][NextDecimal]_vars

(* Suffixes, and the number a suffix follows. *)
SuffixBytes == {CH_SLASH, CH_DOT, CH_MINUS, CH_a, CH_1, CH_SPACE}

InitSuffix == InitOver(SuffixBytes, MaxLen)

InputSuffix == \E ch \in SuffixBytes : Input(ch, MaxLen)

NextSuffix ==
    \/ SuffixProgramData
    \/ DecimalNumericProgramData
    \/ InputSuffix

SpecSuffix == InitSuffix /\ [][NextSuffix]_vars

(* Expressions: the parentheses, a byte of the run, and bytes that stop    *)
(* the run; and the number whose token a caller's record may still hold.   *)
ExpressionBytes ==
    {CH_LPAREN, CH_RPAREN, CH_1, CH_SEMICOLON, CH_DQUOTE, CH_HIGH}

InitExpression == InitOver(ExpressionBytes, MaxLen)

InputExpression == \E ch \in ExpressionBytes : Input(ch, MaxLen)

NextExpression ==
    \/ ProgramExpression
    \/ DecimalNumericProgramData
    \/ InputExpression

SpecExpression == InitExpression /\ [][NextExpression]_vars

(* The bytes of the one-byte tokens and of the line end. *)
PunctuationBytes ==
    {CH_COMMA, CH_SEMICOLON, CH_COLON, CH_CR, CH_LF, CH_SPACE}

(* Every detector on buffers of every family above: each family holds the  *)
(* bytes that take one group of detectors through all of their branches.   *)
ByteFamilies ==
    {BlockBytes, NumBytes, StringBytes, HeaderBytes, DecimalBytes,
     SuffixBytes, ExpressionBytes, PunctuationBytes}

InitFamilies == \E A \in ByteFamilies : InitOver(A, MaxAnyLen)

NextFamilies == Lex

SpecFamilies == InitFamilies /\ [][NextFamilies]_vars

(***************************************************************************)
(* Properties.  They are stated over the state a detector call leaves:     *)
(* `det` is the detector, `start` the cursor before the call, `pos` the    *)
(* cursor after it.  The grammar predicates below describe the buffer from *)
(* index start + 1 on by its bytes alone.                                  *)
(***************************************************************************)
Called == det # "none"

Digits == CH_0..CH_9

(* The value of the decimal digits b[i], ..., b[i + n - 1]. *)
RECURSIVE DecimalValue(_, _, _)
DecimalValue(b, i, n) ==
    IF n = 0 THEN 0
    ELSE 10 * DecimalValue(b, i, n - 1) + (b[i + n - 1] - CH_0)

(* At cursor s the buffer holds `#`, the digit N and N digits of value L. *)
BlockHeaderAt(b, s, N, L) ==
    /\ s + 2 + N <= Len(b)
    /\ b[s + 1] = CH_HASH
    /\ b[s + 2] = CH_0 + N
    /\ \A k \in 1..N : b[s + 2 + k] \in Digits
    /\ DecimalValue(b, s + 3, N) = L

(* The buffer ends inside a block that starts at cursor s: right after the *)
(* `#`, inside the length digits, or before all payload bytes.             *)
TruncatedBlockAt(b, s) ==
    /\ s < Len(b)
    /\ b[s + 1] = CH_HASH
    /\ \/ Len(b) = s + 1
       \/ \E N \in 1..9 :
            /\ b[s + 2] = CH_0 + N
            /\ \A i \in (s + 3)..Len(b) : i <= s + 2 + N => b[i] \in Digits
            /\ \/ Len(b) < s + 2 + N
               \/ Len(b) < s + 2 + N + DecimalValue(b, s + 3, N)

IncompleteHeaders ==
    {"INCOMPLETE_COMMON_PROGRAM_HEADER", "INCOMPLETE_COMPOUND_PROGRAM_HEADER"}

(* C1 as stated: after every detector call that yields a token of kind     *)
(* unknown, the token length is 0 and the cursor is where it was before    *)
(* the call.                                                               *)
C1_UnknownRestoresCursor ==
    (Called /\ token.type = "UNKNOWN") => (token.len = 0 /\ pos = start)

(* C1 amended: after every detector call that yields a token of kind       *)
(* unknown, the token length is 0 and the cursor is where it was before    *)
(* the call, unless the call is the arbitrary-block detector on a block    *)
(* the buffer truncates: then the cursor is at the end of the buffer.      *)
C1_UnknownRestoresCursorUnlessTruncatedBlock ==
    (Called /\ token.type = "UNKNOWN") =>
        /\ token.len = 0
        /\ IF det = "ArbitraryBlockProgramData"
              /\ TruncatedBlockAt(buffer, start)
           THEN pos = Len(buffer)
           ELSE pos = start

(* An unknown token after the detector had consumed bytes: an opening      *)
(* quote with no closing quote in the buffer.                              *)
C1_Witness ==
    /\ det = "StringProgramData"
    /\ token.type = "UNKNOWN"
    /\ start + 2 <= Len(buffer)
    /\ buffer[start + 1] = CH_DQUOTE
    /\ pos = start

(* C2 as stated: whenever the header detector yields an incomplete header  *)
(* or the arbitrary-block detector meets a truncated block, the cursor     *)
(* after the call is the end of the buffer.                                *)
C2_IncompleteAtEndOfBuffer ==
    (\/ det = "ProgramHeader" /\ token.type \in IncompleteHeaders
     \/ det = "ArbitraryBlockProgramData" /\ TruncatedBlockAt(buffer, start))
        => pos = Len(buffer)

(* C2 amended: on a truncated block the cursor after the call is the end   *)
(* of the buffer; on an incomplete header the cursor is right after the    *)
(* `*` or `:` that lacks its mnemonic, which is the end of the buffer only *)
(* when the buffer ends there and is otherwise followed by a byte that is  *)
(* no letter.                                                              *)
C2_IncompleteCursor ==
    /\ (det = "ArbitraryBlockProgramData" /\ TruncatedBlockAt(buffer, start))
          => pos = Len(buffer)
    /\ (det = "ProgramHeader" /\ token.type \in IncompleteHeaders) =>
          /\ pos = start + token.len
          /\ pos > start
          /\ buffer[pos] = (IF token.type = "INCOMPLETE_COMMON_PROGRAM_HEADER"
                            THEN CH_STAR ELSE CH_COLON)
          /\ pos = Len(buffer) \/ ~isalpha(buffer[pos + 1])

(* An incomplete compound header whose last colon ends the buffer. *)
C2_Witness ==
    /\ det = "ProgramHeader"
    /\ token.type = "INCOMPLETE_COMPOUND_PROGRAM_HEADER"
    /\ token.len >= 3
    /\ pos = Len(buffer)

(* C3: over any sequence of detector calls on a fixed buffer the cursor    *)
(* stays within 0..length and no call moves it backward.                   *)
C3_CursorInBoundsAndMonotonic ==
    [][buffer' = buffer => (0 <= pos' /\ pos' <= Len(buffer') /\ pos <= pos')]_vars

(* The block detector has stepped over a declared length the buffer does   *)
(* not hold and has left the cursor at the end of the buffer.              *)
C3_Witness ==
    /\ det = "ArbitraryBlockProgramData"
    /\ BlockHeaderAt(buffer, start, 1, 1)
    /\ Len(buffer) = start + 3
    /\ token.type = "UNKNOWN"
    /\ pos = Len(buffer)

(* The block that starts at cursor s, with N length digits of value L, is  *)
(* in the buffer with all its payload.                                     *)
BlockAt(b, s, N, L) == BlockHeaderAt(b, s, N, L) /\ s + 2 + N + L <= Len(b)

(* The lengths a block within the bounds can declare. *)
BlockLengths == 0..MaxLen + 1

(* C4: when the buffer at the cursor holds `#`, a non-zero digit N, N      *)
(* digits of value L and at least L further bytes, whatever those bytes    *)
(* are, the arbitrary-block detector yields a block token of exactly the L *)
(* payload bytes, leaves the cursor right after them and returns           *)
(* 2 + N + L.                                                              *)
C4_BlockTokenIsPayload ==
    det = "ArbitraryBlockProgramData" =>
        \A N \in 1..9 : \A L \in BlockLengths :
            BlockAt(buffer, start, N, L) =>
                /\ token = [type |-> "ARBITRARY_BLOCK_PROGRAM_DATA",
                            ptr |-> start + 2 + N, len |-> L]
                /\ pos = start + 2 + N + L
                /\ ret = 2 + N + L

(* A block of two payload bytes, a `#` and a non-ASCII byte. *)
C4_Witness ==
    /\ det = "ArbitraryBlockProgramData"
    /\ BlockAt(buffer, start, 1, 2)
    /\ buffer[start + 4] = CH_HASH
    /\ buffer[start + 5] = CH_HIGH
    /\ pos = start + 5

(* The bytes from cursor s to the end of the buffer are a whole block. *)
WholeBlockAt(b, s) ==
    \E N \in 1..9 : \E L \in BlockLengths :
        BlockAt(b, s, N, L) /\ Len(b) = s + 2 + N + L

(* C5: on a buffer grown byte by byte through a well-formed block, with    *)
(* the arbitrary-block detector called again from the same cursor after    *)
(* each byte, every call on a non-empty proper prefix reports incomplete   *)
(* (unknown, length 0, cursor at the end of the buffer) and the call on    *)
(* the whole block yields the block token.                                 *)
C5_StreamedBlock ==
    det = "ArbitraryBlockProgramData" =>
        /\ TruncatedBlockAt(buffer, start) =>
              /\ token.type = "UNKNOWN"
              /\ token.len = 0
              /\ pos = Len(buffer)
              /\ pos > start
        /\ WholeBlockAt(buffer, start) =>
              /\ token.type = "ARBITRARY_BLOCK_PROGRAM_DATA"
              /\ token.len = Len(buffer) - token.ptr
              /\ pos = Len(buffer)

(* A whole block of four bytes that arrived byte by byte: each of its      *)
(* three proper prefixes was tried and found incomplete before the call on *)
(* the whole block.                                                        *)
C5_Witness ==
    /\ det = "ArbitraryBlockProgramData"
    /\ WholeBlockAt(buffer, start)
    /\ Len(buffer) = start + 4
    /\ retries = 3
    /\ token.type = "ARBITRARY_BLOCK_PROGRAM_DATA"

(* At cursor s a `#` is followed by a byte that is no non-zero digit, or a *)
(* byte that is no digit stands among the N length digits.                 *)
MalformedBlockAt(b, s) ==
    /\ s + 2 <= Len(b)
    /\ b[s + 1] = CH_HASH
    /\ \/ b[s + 2] \notin (Digits \ {CH_0})
       \/ \E k \in 1..(b[s + 2] - CH_0) :
            /\ s + 2 + k <= Len(b)
            /\ b[s + 2 + k] \notin Digits

(* C6: a `#` followed by a byte that is no non-zero digit, or a non-digit  *)
(* among the length digits, is a non-match with the cursor restored and 0  *)
(* returned; the cursor is moved to the end of the buffer with an unknown  *)
(* token only when the buffer ends right after `#`, inside the length      *)
(* digits or before all payload bytes.                                     *)
C6_MalformedOrTruncated ==
    det = "ArbitraryBlockProgramData" =>
        /\ MalformedBlockAt(buffer, start) =>
              /\ token.type = "UNKNOWN"
              /\ token.len = 0
              /\ pos = start
              /\ ret = 0
        /\ (token.type = "UNKNOWN" /\ pos # start) =>
              /\ pos = Len(buffer)
              /\ TruncatedBlockAt(buffer, start)

(* `#0` with bytes after it: a non-match with the cursor restored. *)
C6_Witness ==
    /\ det = "ArbitraryBlockProgramData"
    /\ start + 3 <= Len(buffer)
    /\ buffer[start + 1] = CH_HASH
    /\ buffer[start + 2] = CH_0
    /\ token.type = "UNKNOWN"
    /\ pos = start

(* There is a byte at index i and it is one of S. *)
Has(b, i, S) == i <= Len(b) /\ b[i] \in S

(* The index after the longest run of bytes of S that starts at index i. *)
RunEnd(b, i, S) ==
    CHOOSE j \in i..(Len(b) + 1) :
        /\ \A k \in i..(j - 1) : b[k] \in S
        /\ ~Has(b, j, S)

Letters == (CH_A..CH_Z) \cup (CH_a..CH_z)

HexDigits == Digits \cup (CH_A..CH_F) \cup (CH_a..CH_f)

BaseLetters == {CH_H, CH_h, CH_Q, CH_q, CH_B, CH_b}

(* The digits and the token kind a base letter selects. *)
DigitsOf(c) ==
    IF c \in {CH_H, CH_h} THEN HexDigits
    ELSE IF c \in {CH_Q, CH_q} THEN CH_0..CH_7
    ELSE {CH_0, CH_1}

KindOf(c) ==
    IF c \in {CH_H, CH_h} THEN "HEXNUM"
    ELSE IF c \in {CH_Q, CH_q} THEN "OCTNUM"
    ELSE "BINNUM"

(* C7: `#`, a base letter and a longest run of d >= 1 digits of that base  *)
(* give the token of that base over exactly the d digits, the cursor right *)
(* after them and d + 2 returned; with no `#`, no base letter or no digit  *)
(* of the base after the letter the result is unknown, length 0, 0         *)
(* returned and the cursor restored.                                       *)
C7_NondecimalNumber ==
    det = "NondecimalNumericData" =>
        IF Has(buffer, start + 1, {CH_HASH})
           /\ Has(buffer, start + 2, BaseLetters)
           /\ Has(buffer, start + 3, DigitsOf(buffer[start + 2]))
        THEN LET d == RunEnd(buffer, start + 3, DigitsOf(buffer[start + 2]))
                        - (start + 3)
             IN  /\ token = [type |-> KindOf(buffer[start + 2]),
                             ptr |-> start + 2, len |-> d]
                 /\ pos = start + 2 + d
                 /\ ret = d + 2
        ELSE /\ token.type = "UNKNOWN"
             /\ token.len = 0
             /\ ret = 0
             /\ pos = start

(* `#Q11` followed by a 9: the octal token ends before the 9. *)
C7_Witness ==
    /\ det = "NondecimalNumericData"
    /\ Len(buffer) = start + 5
    /\ buffer[start + 1] = CH_HASH
    /\ buffer[start + 2] = CH_Q
    /\ buffer[start + 3] = CH_1
    /\ buffer[start + 4] = CH_1
    /\ buffer[start + 5] = CH_9
    /\ token.len = 2
    /\ ret = 4

(* The number of quotes q that stand in a row right before index i, none   *)
(* of them before index lo.                                                *)
QuotesBefore(b, i, lo, q) ==
    CHOOSE n \in 0..(i - lo) :
        /\ \A k \in 1..n : b[i - k] = q
        /\ n = i - lo \/ b[i - n - 1] # q

(* Index j holds the quote that closes the string opened by q at index     *)
(* lo - 1: the body before it is 7-bit bytes other than q and pairs qq,    *)
(* and the quote at j is not the first of a pair.                          *)
ClosingQuoteAt(b, lo, q, j) ==
    /\ b[j] = q
    /\ ~Has(b, j + 1, {q})
    /\ QuotesBefore(b, j, lo, q) % 2 = 0
    /\ \A t \in lo..(j - 1) :
          /\ b[t] <= CH_ASCII_LAST
          /\ b[t] # q => QuotesBefore(b, t, lo, q) % 2 = 0

(* C8: from an opening quote q the string detector matches exactly when a  *)
(* q that is not followed by another q closes a body of 7-bit bytes other  *)
(* than q and of pairs qq; the token then runs from the opening to the     *)
(* closing quote and has the kind q selects; otherwise the result is       *)
(* unknown, length 0, the cursor restored.                                 *)
C8_QuotedString ==
    (det = "StringProgramData"
     /\ Has(buffer, start + 1, {CH_DQUOTE, CH_SQUOTE})) =>
        LET q == buffer[start + 1]
            closing == {j \in (start + 2)..Len(buffer) :
                            ClosingQuoteAt(buffer, start + 2, q, j)}
        IN  IF closing # {}
            THEN \A j \in closing :
                    /\ token = [type |-> IF q = CH_DQUOTE
                                         THEN "DOUBLE_QUOTE_PROGRAM_DATA"
                                         ELSE "SINGLE_QUOTE_PROGRAM_DATA",
                                ptr |-> start, len |-> j - start]
                    /\ pos = j
                    /\ ret = j - start
            ELSE /\ token.type = "UNKNOWN"
                 /\ token.len = 0
                 /\ pos = start

(* A `"`, a doubled `""`, a letter and the closing `"`: one token of five  *)
(* bytes.                                                                  *)
C8_Witness ==
    /\ det = "StringProgramData"
    /\ buffer = <<CH_DQUOTE, CH_DQUOTE, CH_DQUOTE, CH_a, CH_DQUOTE>>
    /\ start = 0
    /\ token.type = "DOUBLE_QUOTE_PROGRAM_DATA"
    /\ pos = 5

MnemonicChars == Letters \cup Digits \cup {CH_UNDERSCORE}

(* A mnemonic starts at index i and index j is the one after it. *)
MnemonicFrom(b, i, j) ==
    /\ Has(b, i, Letters)
    /\ j = RunEnd(b, i + 1, MnemonicChars)

(* Mnemonics separated by colons start at index i and index j is the one   *)
(* after the last of them.                                                 *)
RECURSIVE ChainFrom(_, _, _)
ChainFrom(b, i, j) ==
    \E m \in (i + 1)..j :
        /\ MnemonicFrom(b, i, m)
        /\ \/ m = j
           \/ m < j /\ b[m] = CH_COLON /\ ChainFrom(b, m + 1, j)

(* What the header detector has left: a token of the given kind over the   *)
(* n bytes from the starting cursor, the cursor right after them.          *)
HeaderIs(type, n) ==
    /\ token = [type |-> type, ptr |-> start, len |-> n]
    /\ pos = start + n
    /\ ret = n

(* C9: `*` and a mnemonic give common-header, or common-query-header with  *)
(* the `?` that follows at once; an optional `:` and mnemonics separated   *)
(* by `:` give compound-header, or compound-query-header with the `?` that *)
(* follows at once; a `:`, leading or separating, that no letter follows   *)
(* gives incomplete-compound-header over the bytes up to that `:`.         *)
C9_HeaderClassification ==
    det = "ProgramHeader" =>
        LET s == start
            first == IF Has(buffer, s + 1, {CH_COLON}) THEN s + 2 ELSE s + 1
        IN  /\ Has(buffer, s + 1, {CH_STAR}) =>
                 \A j \in (s + 3)..(Len(buffer) + 1) :
                    MnemonicFrom(buffer, s + 2, j) =>
                       IF Has(buffer, j, {CH_QUESTION})
                       THEN HeaderIs("COMMON_QUERY_PROGRAM_HEADER", j - s)
                       ELSE HeaderIs("COMMON_PROGRAM_HEADER", j - 1 - s)
            /\ ~Has(buffer, s + 1, {CH_STAR}) =>
                 \A j \in (first + 1)..(Len(buffer) + 1) :
                    ChainFrom(buffer, first, j) =>
                       IF Has(buffer, j, {CH_COLON})
                       THEN ~Has(buffer, j + 1, Letters) =>
                              HeaderIs("INCOMPLETE_COMPOUND_PROGRAM_HEADER",
                                       j - s)
                       ELSE IF Has(buffer, j, {CH_QUESTION})
                       THEN HeaderIs("COMPOUND_QUERY_PROGRAM_HEADER", j - s)
                       ELSE HeaderIs("COMPOUND_PROGRAM_HEADER", j - 1 - s)
            /\ (Has(buffer, s + 1, {CH_COLON})
                /\ ~Has(buffer, s + 2, Letters)) =>
                 HeaderIs("INCOMPLETE_COMPOUND_PROGRAM_HEADER", 1)

(* `:A:A?`: a compound query header of two mnemonics. *)
C9_Witness ==
    /\ det = "ProgramHeader"
    /\ start = 0
    /\ Len(buffer) >= 5
    /\ buffer[1] = CH_COLON
    /\ ChainFrom(buffer, 2, 5)
    /\ buffer[3] = CH_COLON
    /\ buffer[5] = CH_QUESTION
    /\ token.type = "COMPOUND_QUERY_PROGRAM_HEADER"

Signs == {CH_PLUS, CH_MINUS}

Blanks == {CH_SPACE, CH_TAB}

(* The mantissa at cursor s: optional sign, digits, optional `.` and       *)
(* digits.  `end` is the index after it, `digits` the digits it holds.     *)
MantissaAt(b, s) ==
    LET a == IF Has(b, s + 1, Signs) THEN s + 2 ELSE s + 1
        d == RunEnd(b, a, Digits)
        dot == Has(b, d, {CH_DOT})
        f == IF dot THEN RunEnd(b, d + 1, Digits) ELSE d
    IN  [end |-> f, digits |-> (d - a) + (IF dot THEN f - (d + 1) ELSE 0)]

(* The exponent that may follow at index m: blanks, E, blanks, optional    *)
(* sign, digits.  `end` is the index after it, `ok` whether it is there    *)
(* with at least one digit.                                                *)
ExponentAt(b, m) ==
    LET e == RunEnd(b, m, Blanks)
        w == RunEnd(b, e + 1, Blanks)
        g == IF Has(b, w, Signs) THEN w + 1 ELSE w
        n == RunEnd(b, g, Digits)
    IN  IF Has(b, e, {CH_E, CH_e}) /\ n > g
        THEN [ok |-> TRUE, end |-> n]
        ELSE [ok |-> FALSE, end |-> m]

(* C10: a mantissa with at least one digit gives a decimal token from the  *)
(* cursor to the end of a well-formed exponent or, with no such exponent,  *)
(* to the end of the mantissa, and the cursor is at the end of the token;  *)
(* a mantissa without a digit gives unknown with the cursor restored.      *)
C10_DecimalTokenBoundary ==
    det = "DecimalNumericProgramData" =>
        LET m == MantissaAt(buffer, start)
            x == ExponentAt(buffer, m.end)
            end == IF x.ok THEN x.end ELSE m.end
        IN  IF m.digits > 0
            THEN /\ token = [type |-> "DECIMAL_NUMERIC_PROGRAM_DATA",
                             ptr |-> start, len |-> end - 1 - start]
                 /\ pos = end - 1
                 /\ ret = end - 1 - start
            ELSE /\ token.type = "UNKNOWN"
                 /\ token.len = 0
                 /\ pos = start

(* `1.1 E` at the end of the buffer: the token is `1.1`, the blank and the *)
(* E that were probed are not part of it.                                  *)
C10_Witness ==
    /\ det = "DecimalNumericProgramData"
    /\ buffer = <<CH_1, CH_DOT, CH_1, CH_SPACE, CH_E>>
    /\ start = 0
    /\ token.len = 3
    /\ pos = 3

CommonKinds == {"COMMON_PROGRAM_HEADER", "COMMON_QUERY_PROGRAM_HEADER"}

CompoundKinds ==
    {"COMPOUND_PROGRAM_HEADER", "COMPOUND_QUERY_PROGRAM_HEADER",
     "INCOMPLETE_COMPOUND_PROGRAM_HEADER"}

(* A `*` is at cursor s and no letter follows it. *)
StarWithoutMnemonic(b, s) ==
    Has(b, s + 1, {CH_STAR}) /\ ~Has(b, s + 2, Letters)

(* A `*` is at cursor s and the buffer ends in the mnemonic after it. *)
StarWithCutMnemonic(b, s) ==
    /\ Has(b, s + 1, {CH_STAR})
    /\ MnemonicFrom(b, s + 2, Len(b) + 1)

(* C11 as stated: when the buffer at the cursor begins with `*` and the    *)
(* mnemonic after it is absent or the buffer ends inside it, the header    *)
(* detector yields incomplete-common-header; whenever a `*` was consumed   *)
(* the kind is not a compound kind.                                        *)
C11_StarWithoutWholeMnemonicIsIncomplete ==
    (det = "ProgramHeader" /\ Has(buffer, start + 1, {CH_STAR})) =>
        /\ token.type \notin CompoundKinds
        /\ (StarWithoutMnemonic(buffer, start)
            \/ StarWithCutMnemonic(buffer, start)) =>
               token.type = "INCOMPLETE_COMMON_PROGRAM_HEADER"

(* C11 amended: when the buffer at the cursor begins with `*` and no       *)
(* letter follows it, the header detector yields incomplete-common-header  *)
(* over the `*`; when the buffer ends in the mnemonic after the `*`, it    *)
(* yields common-header over the bytes up to the end of the buffer;        *)
(* whenever a `*` was consumed the kind is a common kind or                *)
(* incomplete-common-header, never a compound kind and never unknown.      *)
C11_StarHeaderIsCommonOrIncompleteCommon ==
    (det = "ProgramHeader" /\ Has(buffer, start + 1, {CH_STAR})) =>
        /\ token.type \in CommonKinds \cup {"INCOMPLETE_COMMON_PROGRAM_HEADER"}
        /\ StarWithoutMnemonic(buffer, start) =>
               HeaderIs("INCOMPLETE_COMMON_PROGRAM_HEADER", 1)
        /\ StarWithCutMnemonic(buffer, start) =>
               HeaderIs("COMMON_PROGRAM_HEADER", Len(buffer) - start)

(* `*A1` at the end of the buffer, after a byte that was scanned before:   *)
(* a common header of three bytes.                                         *)
C11_Witness ==
    /\ det = "ProgramHeader"
    /\ start = 1
    /\ Len(buffer) = 4
    /\ StarWithCutMnemonic(buffer, start)
    /\ buffer[4] = CH_1
    /\ token.type = "COMMON_PROGRAM_HEADER"
    /\ token.len = 3

(* No `*` is at cursor s, and from s the buffer holds an optional `:`,     *)
(* mnemonics separated by `:`, one more `:` and a mnemonic the buffer ends *)
(* in.                                                                     *)
CompoundCutInLoopAt(b, s) ==
    LET first == IF Has(b, s + 1, {CH_COLON}) THEN s + 2 ELSE s + 1
    IN  /\ ~Has(b, s + 1, {CH_STAR})
        /\ \E m \in (first + 1)..Len(b) :
              /\ ChainFrom(b, first, m)
              /\ b[m] = CH_COLON
              /\ MnemonicFrom(b, m + 1, Len(b) + 1)

(* C12 as stated: when the buffer ends in a mnemonic that follows a `:`    *)
(* separator of a compound header, the header detector yields              *)
(* incomplete-compound-header and not compound-header.                     *)
C12_CutMnemonicInLoopIsIncomplete ==
    (det = "ProgramHeader" /\ CompoundCutInLoopAt(buffer, start)) =>
        token.type = "INCOMPLETE_COMPOUND_PROGRAM_HEADER"

(* C12 amended: when the buffer ends in a mnemonic that follows a `:`      *)
(* separator of a compound header, the header detector yields              *)
(* compound-header over the bytes from the cursor to the end of the        *)
(* buffer, and the cursor is at the end of the buffer.                     *)
C12_CutMnemonicInLoopIsCompoundHeader ==
    (det = "ProgramHeader" /\ CompoundCutInLoopAt(buffer, start)) =>
        /\ HeaderIs("COMPOUND_PROGRAM_HEADER", Len(buffer) - start)
        /\ pos = Len(buffer)

(* `:A:A1` with the buffer ending after the `1`. *)
C12_Witness ==
    /\ det = "ProgramHeader"
    /\ start = 0
    /\ buffer = <<CH_COLON, CH_A, CH_COLON, CH_A, CH_1>>
    /\ CompoundCutInLoopAt(buffer, start)
    /\ token.type = "COMPOUND_PROGRAM_HEADER"
    /\ pos = 5

(* The index at which the letters of a suffix at cursor s have to start:   *)
(* after the optional leading `/`.                                         *)
SuffixLettersAt(b, s) == IF Has(b, s + 1, {CH_SLASH}) THEN s + 2 ELSE s + 1

(* C13: when, after an optional leading `/`, no letter is at the scan      *)
(* position, the suffix detector yields unknown with length 0 and the      *)
(* cursor unchanged; it yields a suffix token only when a letter is there. *)
C13_SuffixNeedsLetter ==
    det = "SuffixProgramData" =>
        /\ ~Has(buffer, SuffixLettersAt(buffer, start), Letters) =>
              /\ token.type = "UNKNOWN"
              /\ token.len = 0
              /\ ret = 0
              /\ pos = start
        /\ token.type = "SUFFIX_PROGRAM_DATA" =>
              Has(buffer, SuffixLettersAt(buffer, start), Letters)

(* The bytes an expression may hold between its parentheses. *)
ExpressionChars ==
    (CH_SPACE..CH_PRINT_LAST)
        \ {CH_DQUOTE, CH_HASH, CH_SQUOTE, CH_LPAREN, CH_RPAREN, CH_SEMICOLON}

(* The index after the run of expression bytes that follows a `(` at       *)
(* cursor s.                                                               *)
ExpressionRunEnd(b, s) == RunEnd(b, s + 2, ExpressionChars)

(* At cursor s the buffer holds `(`, a run of expression bytes and `)`. *)
ExpressionAt(b, s) ==
    /\ Has(b, s + 1, {CH_LPAREN})
    /\ Has(b, ExpressionRunEnd(b, s), {CH_RPAREN})

(* C14: the expression detector matches exactly when the buffer at the     *)
(* cursor holds `(`, a maximal run of expression bytes and `)`, and the    *)
(* token then spans from the `(` through the `)`; otherwise, also when the *)
(* `)` is missing, the result is unknown with length 0 and the cursor      *)
(* restored.                                                               *)
C14_ExpressionMatchesExactly ==
    det = "ProgramExpression" =>
        LET n == ExpressionRunEnd(buffer, start) - start
        IN  IF ExpressionAt(buffer, start)
            THEN /\ token = [type |-> "PROGRAM_EXPRESSION",
                             ptr |-> start, len |-> n]
                 /\ pos = start + n
                 /\ ret = n
            ELSE /\ token.type = "UNKNOWN"
                 /\ token.len = 0
                 /\ pos = start

(* What the caller's token record may hold when a detector is entered. *)
TokenRecords ==
    [type : {"UNKNOWN", "DECIMAL_NUMERIC_PROGRAM_DATA"},
     ptr : {0},
     len : StaleLens]

(* The results detector d can deliver at cursor p of buffer b when the     *)
(* caller's token record holds tok.                                        *)
DetectorResults(d, b, p, tok) ==
    CASE d = "WhiteSpace" -> {scpiLex_WhiteSpace(b, p, tok)}
      [] d = "ProgramHeader" -> {scpiLex_ProgramHeader(b, p, tok)}
      [] d = "CharacterProgramData" ->
            {scpiLex_CharacterProgramData(b, p, tok)}
      [] d = "DecimalNumericProgramData" ->
            {scpiLex_DecimalNumericProgramData(b, p, tok)}
      [] d = "SuffixProgramData" -> {scpiLex_SuffixProgramData(b, p, tok)}
      [] d = "NondecimalNumericData" ->
            {scpiLex_NondecimalNumericData(b, p, tok)}
      [] d = "StringProgramData" -> {scpiLex_StringProgramData(b, p, tok)}
      [] d = "ArbitraryBlockProgramData" ->
            {scpiLex_ArbitraryBlockProgramData(b, p, tok)}
      [] d = "ProgramExpression" -> {scpiLex_ProgramExpression(b, p, tok)}
      [] d = "Comma" -> {scpiLex_Comma(b, p, tok)}
      [] d = "Semicolon" -> {scpiLex_Semicolon(b, p, tok)}
      [] d = "Colon" -> {scpiLex_Colon(b, p, tok)}
      [] d = "SpecificCharacter" ->
            {scpiLex_SpecificCharacter(b, p, tok, chr) : chr \in SpecificChars}
      [] d = "NewLine" -> {scpiLex_NewLine(b, p, tok)}

(* C15: the token, the return value and the cursor a detector call leaves  *)
(* are what the same call leaves whatever the caller's token record held   *)
(* before it; the expression detector called where the byte at the cursor  *)
(* is not `(`, or at the end of the buffer, yields unknown with length 0.  *)
C15_ResultIndependentOfTokenRecord ==
    Called =>
        /\ \A tok \in TokenRecords :
              [pos |-> pos, token |-> token, ret |-> ret]
                  \in DetectorResults(det, buffer, start, tok)
        /\ (det = "ProgramExpression"
            /\ ~Has(buffer, start + 1, {CH_LPAREN})) =>
               (token.type = "UNKNOWN" /\ token.len = 0)

(* The offsets whose byte the call that led to the present state examined: *)
(* the call of detector `det` at cursor `start` of `buffer`, which no call *)
(* writes.                                                                 *)
reads == DetectorReads(det, buffer, start)

(* C16: every byte a detector call examines lies at an offset from the     *)
(* cursor the call started at up to, and not including, the length of the  *)
(* buffer, also when the arbitrary-block detector has moved the cursor on  *)
(* by the declared block length.                                           *)
C16_ReadsInsideBuffer ==
    Called => \A k \in reads : start <= k /\ k < Len(buffer)

(* `#11` at the end of the buffer: the block detector has examined the     *)
(* three header bytes and moved the cursor one past the end of the buffer, *)
(* where the missing payload byte would be, without examining it.          *)
C16_Witness ==
    /\ det = "ArbitraryBlockProgramData"
    /\ BlockHeaderAt(buffer, start, 1, 1)
    /\ Len(buffer) = start + 3
    /\ blockScan(buffer, start).pos = Len(buffer) + 1
    /\ reads = start..(Len(buffer) - 1)

====
